---- MODULE Spec2Model ----
(***************************************************************************)
(* Model of the WGpuPlayground rendering host (src/src/lib.rs): the State  *)
(* aggregate (surface configuration, render target size, render pipeline), *)
(* State::new, State::resize, State::render and the winit event-loop       *)
(* closure of run().                                                       *)
(*                                                                         *)
(* The windowing system and the GPU driver are the environment: they pick  *)
(* the window's initial size, the surface capabilities, whether each       *)
(* startup negotiation succeeds, the next event and the outcome of every   *)
(* image acquisition.  ControlFlow::Exit is winit's terminal request: once *)
(* it is set the loop delivers LoopDestroyed and stops.                    *)
(***************************************************************************)
EXTENDS Integers, Sequences, FiniteSets, TLC

\* ------------------------------------------------------------------ bounds
\* Longest list of formats a surface reports in the model.
MaxFormats == 2

\* ------------------------------------------------------------- environment
PhysicalSize(w, h) == [width |-> w, height |-> h]

\* Window sizes the windowing system may report (inner_size, Resized).
WindowSizes ==
    { PhysicalSize(450, 400), PhysicalSize(800, 600),
      PhysicalSize(0, 0), PhysicalSize(0, 600), PhysicalSize(800, 0) }

NoSize == PhysicalSize(0, 0)

TextureFormats == {"Bgra8Unorm", "Bgra8UnormSrgb", "Rgba8UnormSrgb"}

is_srgb(f) == f \in {"Bgra8UnormSrgb", "Rgba8UnormSrgb"}

FormatLists == UNION { [1..n -> TextureFormats] : n \in 0..MaxFormats }

PresentModeLists == { <<"Mailbox", "Fifo">> }

AlphaModeLists == { <<"Auto", "Opaque">> }

SurfaceErrors == {"Timeout", "Outdated", "Lost", "OutOfMemory"}

AcquireResults == {"Ok"} \cup SurfaceErrors

OwnWindow == "own"

WindowIds == {OwnWindow, "other"}

\* ------------------------------------------------------------- API calls
\* One call made on the surface, the device, the queue, a pass or the
\* window: its name and its integer arguments.
Call(op, args) == [op |-> op, args |-> args]

HasCall(cs, op) == \E i \in 1..Len(cs) : cs[i].op = op

CountCalls(cs, op) == Cardinality({ i \in 1..Len(cs) : cs[i].op = op })

\* surface.configure(&device, &config)
ConfigureCall(config) == Call("configure", <<config.width, config.height>>)

\* ------------------------------------------------------------------ state
VARIABLES
    pc,               \* position of the process: start, dispatch, a step of render, exited, aborted
    control_flow,     \* *control_flow of the event loop closure
    size,             \* State.size, the Render Target Size
    config,           \* State.config, the Surface Configuration
    render_pipeline,  \* State.render_pipeline (the color-target format it was built for)
    applied,          \* the configuration the surface was last configured with
    redraw_requested, \* window.request_redraw() pending
    output,           \* render's local `output`: drawable images held
    encoder,          \* render's local `encoder`
    render_pass,      \* render's local `render_pass`
    frame_size,       \* size of the drawable image acquired while handling `event`
    last_result,      \* result of get_current_texture() while handling `event`
    event,            \* the event being handled / handled last
    calls,            \* API calls made while handling `event`
    reported,         \* window size most recently reported by the windowing system
    last_resize,      \* size of the last positive-area Resized event of the owned window
    caps              \* surface capabilities reported at startup

vars == << pc, control_flow, size, config, render_pipeline, applied,
           redraw_requested, output, encoder, render_pass, frame_size,
           last_result, event, calls, reported, last_resize, caps >>

NoConfig == [format |-> "none", width |-> 0, height |-> 0,
             present_mode |-> "none", alpha_mode |-> "none"]

NoPipeline == [built |-> 0, format |-> "none"]

NoCaps == [formats |-> <<>>, present_modes |-> <<>>, alpha_modes |-> <<>>]

Ev(kind, window_id, sz, key, state) ==
    [kind |-> kind, window_id |-> window_id, size |-> sz, key |-> key, state |-> state]

NoEvent == Ev("none", "none", NoSize, "none", "none")

\* Events the windowing system delivers while the loop runs.
WindowEvents ==
    { Ev("CloseRequested", w, NoSize, "none", "none") : w \in WindowIds }
    \cup { Ev("Resized", OwnWindow, s, "none", "none") : s \in WindowSizes }
    \cup { Ev("Resized", "other", PhysicalSize(800, 600), "none", "none") }
    \cup { Ev("KeyboardInput", OwnWindow, NoSize, k, st) :
             k \in {"Escape", "Space"}, st \in {"Pressed", "Released"} }
    \cup { Ev("KeyboardInput", "other", NoSize, "Escape", "Pressed") }
    \cup { Ev("CursorMoved", OwnWindow, NoSize, "none", "none") }

Events ==
    WindowEvents
    \cup { Ev("RedrawRequested", w, NoSize, "none", "none") : w \in WindowIds }
    \cup { Ev("MainEventsCleared", "none", NoSize, "none", "none"),
           Ev("NewEvents", "none", NoSize, "none", "none") }

Init ==
    /\ pc = "start"
    /\ control_flow = "Poll"
    /\ size = NoSize
    /\ config = NoConfig
    /\ render_pipeline = NoPipeline
    /\ applied = NoConfig
    /\ redraw_requested = FALSE
    /\ output = 0
    /\ encoder = "none"
    /\ render_pass = "none"
    /\ frame_size = NoSize
    /\ last_result = "none"
    /\ event = NoEvent
    /\ calls = <<>>
    /\ reported = NoSize
    /\ last_resize = NoSize
    /\ caps = NoCaps


\* ------------------------------------------------------------ State::new
\* surface_caps.formats.iter().copied().find(|f| f.is_srgb())
find_srgb(formats) ==
    LET hits == { i \in 1..Len(formats) : is_srgb(formats[i]) }
    IN  IF hits = {} THEN "none"
        ELSE formats[CHOOSE i \in hits : \A j \in hits : i <= j]

\* Variant: the first reported format is taken without looking for sRGB.
surface_format_first(formats) == formats[1]

\* .unwrap_or(surface_caps.formats[0]); the argument is evaluated first, so
\* the caller guards against an empty list (index out of bounds).
surface_format(formats) ==
    IF find_srgb(formats) = "none" THEN formats[1] ELSE find_srgb(formats)

\* let config = wgpu::SurfaceConfiguration { .. }
new_config(sz, c) ==
    [format       |-> surface_format(c.formats),
     width        |-> sz.width,
     height       |-> sz.height,
     present_mode |-> c.present_modes[1],
     alpha_mode   |-> c.alpha_modes[1]]

\* Variant: the color target's format is written out instead of being
\* taken from the surface configuration.
new_pipeline_fixed_format(cfg) == [built |-> 1, format |-> "Bgra8UnormSrgb"]

\* device.create_render_pipeline: the single color target's format.
new_pipeline(cfg) == [built |-> 1, format |-> cfg.format]

NewFailed(cs) ==
    /\ pc' = "aborted"
    /\ calls' = cs
    /\ UNCHANGED << control_flow, size, config, render_pipeline, applied,
                    redraw_requested, output, encoder, render_pass, frame_size,
                    last_result, event, last_resize >>

\* Variant: the results of the three negotiations are not unwrapped, startup
\* goes on after a failure.
new_unchecked(sz, surface_ok, adapter_ok, device_ok, c) ==
    /\ pc = "start"
    /\ reported' = sz
    /\ caps' = c
    /\ IF Len(c.formats) = 0
         THEN NewFailed(<< Call("create_surface", <<>>), Call("request_adapter", <<>>),
                           Call("request_device", <<>>), Call("get_capabilities", <<>>) >>)
       ELSE
         /\ pc' = "dispatch"
         /\ size' = sz
         /\ config' = new_config(sz, c)
         /\ applied' = new_config(sz, c)
         /\ render_pipeline' = new_pipeline(new_config(sz, c))
         /\ calls' = << Call("create_surface", <<>>), Call("request_adapter", <<>>),
                        Call("request_device", <<>>), Call("get_capabilities", <<>>),
                        ConfigureCall(new_config(sz, c)),
                        Call("create_shader_module", <<>>),
                        Call("create_pipeline_layout", <<>>),
                        Call("create_render_pipeline", <<>>) >>
         /\ UNCHANGED << control_flow, redraw_requested, output, encoder, render_pass,
                         frame_size, last_result, event, last_resize >>

\* State::new(window).await, with the window's inner size, the outcome of
\* the three startup negotiations and the surface capabilities as inputs.
new(sz, surface_ok, adapter_ok, device_ok, c) ==
    /\ pc = "start"
    /\ reported' = sz
    /\ caps' = IF surface_ok /\ adapter_ok /\ device_ok THEN c ELSE NoCaps
    /\ IF ~surface_ok
         THEN NewFailed(<< Call("create_surface", <<>>) >>)
       ELSE IF ~adapter_ok
         THEN NewFailed(<< Call("create_surface", <<>>), Call("request_adapter", <<>>) >>)
       ELSE IF ~device_ok
         THEN NewFailed(<< Call("create_surface", <<>>), Call("request_adapter", <<>>),
                           Call("request_device", <<>>) >>)
       ELSE IF Len(c.formats) = 0
         THEN NewFailed(<< Call("create_surface", <<>>), Call("request_adapter", <<>>),
                           Call("request_device", <<>>), Call("get_capabilities", <<>>) >>)
       ELSE
         /\ pc' = "dispatch"
         /\ size' = sz
         /\ config' = new_config(sz, c)
         /\ applied' = new_config(sz, c)
         /\ render_pipeline' = new_pipeline(new_config(sz, c))
         /\ calls' = << Call("create_surface", <<>>), Call("request_adapter", <<>>),
                        Call("request_device", <<>>), Call("get_capabilities", <<>>),
                        ConfigureCall(new_config(sz, c)),
                        Call("create_shader_module", <<>>),
                        Call("create_pipeline_layout", <<>>),
                        Call("create_render_pipeline", <<>>) >>
         /\ UNCHANGED << control_flow, redraw_requested, output, encoder, render_pass,
                         frame_size, last_result, event, last_resize >>

\* --------------------------------------------------------- State::resize
\* The fields resize reads and writes, and the calls made so far.
Self == [size |-> size, config |-> config, applied |-> applied, calls |-> calls]

\* Variant: the new size is stored but the surface is configured with the
\* width and height the configuration had before.
resize_stale_config(self, sz) ==
    IF sz.height > 0 /\ sz.width > 0
    THEN [size    |-> sz,
          config  |-> self.config,
          applied |-> self.config,
          calls   |-> Append(self.calls, ConfigureCall(self.config))]
    ELSE self

\* Variant: the surface is reconfigured but self.size is not updated.
resize_forgets_size(self, sz) ==
    IF sz.height > 0 /\ sz.width > 0
    THEN LET cfg == [self.config EXCEPT !.width = sz.width, !.height = sz.height]
         IN  [size    |-> self.size,
              config  |-> cfg,
              applied |-> cfg,
              calls   |-> Append(self.calls, ConfigureCall(cfg))]
    ELSE self

\* Variant: the positive-area guard is missing.
resize_unguarded(self, sz) ==
    LET cfg == [self.config EXCEPT !.width = sz.width, !.height = sz.height]
    IN  [size    |-> sz,
         config  |-> cfg,
         applied |-> cfg,
         calls   |-> Append(self.calls, ConfigureCall(cfg))]

resize(self, sz) ==
    IF sz.height > 0 /\ sz.width > 0
    THEN LET cfg == [self.config EXCEPT !.width = sz.width, !.height = sz.height]
         IN  [size    |-> sz,
              config  |-> cfg,
              applied |-> cfg,
              calls   |-> Append(self.calls, ConfigureCall(cfg))]
    ELSE self

\* Write a resize result back to the State fields.
Store(self) ==
    /\ size' = self.size
    /\ config' = self.config
    /\ applied' = self.applied
    /\ calls' = self.calls

\* ------------------------------------------------------- event dispatch
Running == pc = "dispatch" /\ control_flow # "Exit"

\* The windowing system's side of delivering event e: what it last reported.
Deliver(e) ==
    /\ event' = e
    /\ reported' = IF e.kind = "Resized" /\ e.window_id = OwnWindow
                   THEN e.size ELSE reported
    /\ last_resize' = IF /\ e.kind = "Resized" /\ e.window_id = OwnWindow
                         /\ e.size.width > 0 /\ e.size.height > 0
                      THEN e.size ELSE last_resize
    /\ last_result' = "none"
    /\ frame_size' = NoSize
    /\ redraw_requested' = IF e.kind = "RedrawRequested" /\ e.window_id = OwnWindow
                           THEN FALSE
                           ELSE IF e.kind = "MainEventsCleared" THEN TRUE
                           ELSE redraw_requested

\* Variant: the key's ElementState is not matched, a release of Escape
\* ends the loop too.
window_event_flow_any_state(e, flow) ==
    IF \/ e.kind = "CloseRequested"
       \/ (e.kind = "KeyboardInput" /\ e.key = "Escape")
    THEN "Exit"
    ELSE flow

\* Variant: only the Escape key ends the loop.
window_event_flow_escape_only(e, flow) ==
    IF e.kind = "KeyboardInput" /\ e.state = "Pressed" /\ e.key = "Escape"
    THEN "Exit"
    ELSE flow

\* match event { CloseRequested | KeyboardInput{Pressed, Escape} => Exit, _ => {} }
window_event_flow(e, flow) ==
    IF \/ e.kind = "CloseRequested"
       \/ (e.kind = "KeyboardInput" /\ e.state = "Pressed" /\ e.key = "Escape")
    THEN "Exit"
    ELSE flow

\* State::input
input(e) == FALSE

\* Event::WindowEvent { event, window_id } if window_id == state.window.id()
WindowEvent(e) ==
    /\ Running
    /\ e \in WindowEvents /\ e.window_id = OwnWindow
    /\ Deliver(e)
    /\ calls' = <<>>
    /\ control_flow' = IF ~input(e) THEN window_event_flow(e, control_flow)
                       ELSE control_flow
    /\ UNCHANGED << pc, size, config, render_pipeline, applied, output, encoder,
                    render_pass, caps >>

\* Variant: the handler enters state.render() without calling state.update().
RedrawRequested_no_update ==
    /\ Running
    /\ Deliver(Ev("RedrawRequested", OwnWindow, NoSize, "none", "none"))
    /\ calls' = << >>
    /\ pc' = "get_current_texture"
    /\ UNCHANGED << control_flow, size, config, render_pipeline, applied, output,
                    encoder, render_pass, caps >>

\* Event::RedrawRequested(window_id) if window_id == state.window.id():
\* state.update(), then state.render() is entered.
RedrawRequested ==
    /\ Running
    /\ Deliver(Ev("RedrawRequested", OwnWindow, NoSize, "none", "none"))
    /\ calls' = << Call("update", <<>>) >>
    /\ pc' = "get_current_texture"
    /\ UNCHANGED << control_flow, size, config, render_pipeline, applied, output,
                    encoder, render_pass, caps >>

\* Variant: the events-drained notification requests no redraw.
MainEventsCleared_no_request ==
    /\ Running
    /\ event' = Ev("MainEventsCleared", "none", NoSize, "none", "none")
    /\ calls' = << >>
    /\ last_result' = "none"
    /\ frame_size' = NoSize
    /\ UNCHANGED << pc, control_flow, size, config, render_pipeline, applied, output,
                    encoder, render_pass, caps, reported, last_resize,
                    redraw_requested >>

\* Event::MainEventsCleared => state.window().request_redraw()
MainEventsCleared ==
    /\ Running
    /\ Deliver(Ev("MainEventsCleared", "none", NoSize, "none", "none"))
    /\ calls' = << Call("request_redraw", <<>>) >>
    /\ UNCHANGED << pc, control_flow, size, config, render_pipeline, applied, output,
                    encoder, render_pass, caps >>

\* Variant: the redraw arm lacks its window_id guard, a redraw request for
\* another window enters the frame cycle.
Ignored_redraw_any_window(e) ==
    /\ Running
    /\ e \in Events
    /\ e.kind # "MainEventsCleared"
    /\ e.window_id # OwnWindow
    /\ Deliver(e)
    /\ calls' = IF e.kind = "RedrawRequested" THEN << Call("update", <<>>) >> ELSE <<>>
    /\ pc' = IF e.kind = "RedrawRequested" THEN "get_current_texture" ELSE pc
    /\ UNCHANGED << control_flow, size, config, render_pipeline, applied, output,
                    encoder, render_pass, caps >>

\* _ => {}
Ignored(e) ==
    /\ Running
    /\ e \in Events
    /\ e.kind # "MainEventsCleared"
    /\ e.window_id # OwnWindow
    /\ Deliver(e)
    /\ calls' = <<>>
    /\ UNCHANGED << pc, control_flow, size, config, render_pipeline, applied, output,
                    encoder, render_pass, caps >>

\* ControlFlow::Exit: the loop delivers LoopDestroyed (arm `_ => {}`) and stops.
LoopDestroyed ==
    /\ pc = "dispatch"
    /\ control_flow = "Exit"
    /\ pc' = "exited"
    /\ event' = Ev("LoopDestroyed", "none", NoSize, "none", "none")
    /\ calls' = <<>>
    /\ last_result' = "none"
    /\ frame_size' = NoSize
    /\ UNCHANGED << control_flow, size, config, render_pipeline, applied,
                    redraw_requested, output, encoder, render_pass, reported,
                    last_resize, caps >>


\* --------------------------------------------------------- State::render
\* wgpu::Color { r: 0.5, g: 0.4, b: 0.9, a: 1.0 }, in tenths.
ClearColor == << 5, 4, 9, 10 >>

\* store: true
Store_op == 1

\* Variant: a quad's worth of vertices.
DrawVertices_four == << 0, 4 >>

\* render_pass.draw(0..3, 0..1)
DrawVertices == << 0, 3 >>

DrawInstances == << 0, 1 >>

\* Identity of State.render_pipeline, the only pipeline the program builds.
PipelineId == 1

RenderLocals == << output, encoder, render_pass >>

\* Variant: Outdated is recovered like Lost, by reconfiguring.
render_error_outdated_reconfigures(self, err) ==
    IF err \in {"Lost", "Outdated"} THEN resize(self, self.size) ELSE self

\* The arm of `match state.render()` taken for a failed acquisition.
render_error(self, err) ==
    IF err = "Lost" THEN resize(self, self.size) ELSE self

\* Variant: OutOfMemory is logged like Outdated and Timeout.
render_error_flow_logged(err, flow) == flow

\* Variant: a lost surface ends the loop as well.
render_error_flow_lost_exits(err, flow) ==
    IF err \in {"OutOfMemory", "Lost"} THEN "Exit" ELSE flow

render_error_flow(err, flow) ==
    IF err = "OutOfMemory" THEN "Exit" ELSE flow

\* let output = self.surface.get_current_texture()?; and create_view.
\* On an error render returns at `?` and the handler's match arm runs.
get_current_texture(r) ==
    /\ pc = "get_current_texture"
    /\ last_result' = r
    /\ IF r = "Ok"
       THEN /\ output' = output + 1
            /\ frame_size' = PhysicalSize(applied.width, applied.height)
            /\ calls' = calls \o << Call("get_current_texture", <<>>),
                                    Call("create_view", <<>>) >>
            /\ pc' = "create_command_encoder"
            /\ UNCHANGED << control_flow, size, config, applied >>
       ELSE /\ Store(render_error(
                       [Self EXCEPT !.calls =
                            Append(calls, Call("get_current_texture", <<>>))], r))
            /\ control_flow' = render_error_flow(r, control_flow)
            /\ pc' = "dispatch"
            /\ UNCHANGED << output, frame_size >>
    /\ UNCHANGED << render_pipeline, redraw_requested, encoder, render_pass, event,
                    reported, last_resize, caps >>

RenderStep(next, cs) ==
    /\ pc' = next
    /\ calls' = calls \o cs
    /\ UNCHANGED << control_flow, size, config, render_pipeline, applied,
                    redraw_requested, frame_size, last_result, event, reported,
                    last_resize, caps >>

\* let mut encoder = self.device.create_command_encoder(..)
create_command_encoder ==
    /\ pc = "create_command_encoder"
    /\ encoder' = "recording"
    /\ UNCHANGED << output, render_pass >>
    /\ RenderStep("begin_render_pass", << Call("create_command_encoder", <<>>) >>)

\* let mut render_pass = encoder.begin_render_pass(..)
begin_render_pass ==
    /\ pc = "begin_render_pass"
    /\ render_pass' = "open"
    /\ UNCHANGED << output, encoder >>
    /\ RenderStep("set_pipeline",
                  << Call("begin_render_pass", Append(ClearColor, Store_op)) >>)

\* render_pass.set_pipeline(&self.render_pipeline)
set_pipeline ==
    /\ pc = "set_pipeline"
    /\ UNCHANGED RenderLocals
    /\ RenderStep("draw", << Call("set_pipeline", << PipelineId >>) >>)

\* render_pass.draw(0..3, 0..1)
draw ==
    /\ pc = "draw"
    /\ UNCHANGED RenderLocals
    /\ RenderStep("end_render_pass", << Call("draw", DrawVertices \o DrawInstances) >>)

\* the block closes: render_pass is dropped
end_render_pass ==
    /\ pc = "end_render_pass"
    /\ render_pass' = "none"
    /\ UNCHANGED << output, encoder >>
    /\ RenderStep("submit", << Call("end_render_pass", <<>>) >>)

\* self.queue.submit(std::iter::once(encoder.finish()))
submit ==
    /\ pc = "submit"
    /\ encoder' = "none"
    /\ UNCHANGED << output, render_pass >>
    /\ RenderStep("present", << Call("finish", <<>>), Call("submit", <<>>) >>)

\* Variant: render returns Ok(()) without presenting, the image stays held.
present_skipped ==
    /\ pc = "present"
    /\ UNCHANGED RenderLocals
    /\ RenderStep("dispatch", << >>)

\* output.present(); Ok(()) and the handler's arm Ok(_) => {}
present ==
    /\ pc = "present"
    /\ output' = output - 1
    /\ UNCHANGED << encoder, render_pass >>
    /\ RenderStep("dispatch", << Call("present", <<>>) >>)

\* ------------------------------------------------------------ the program
Startup ==
    \E sz \in WindowSizes, surface_ok \in BOOLEAN, adapter_ok \in BOOLEAN,
       device_ok \in BOOLEAN, f \in FormatLists, pm \in PresentModeLists,
       am \in AlphaModeLists :
        new(sz, surface_ok, adapter_ok, device_ok,
            [formats |-> f, present_modes |-> pm, alpha_modes |-> am])

Render ==
    \/ \E r \in AcquireResults : get_current_texture(r)
    \/ create_command_encoder
    \/ begin_render_pass
    \/ set_pipeline
    \/ draw
    \/ end_render_pass
    \/ submit
    \/ present

Next ==
    \/ Startup
    \/ \E e \in WindowEvents : WindowEvent(e)
    \/ RedrawRequested
    \/ MainEventsCleared
    \/ \E e \in Events : Ignored(e)
    \/ Render
    \/ LoopDestroyed

Spec == Init /\ [][Next]_vars

\* The windowing system delivers a redraw that was requested with
\* request_redraw(): RedrawRequested follows MainEventsCleared.
DeliverRequestedRedraw == redraw_requested /\ RedrawRequested

SpecFair == Spec /\ WF_vars(DeliverRequestedRedraw)

\* --------------------------------------------- State::resize called directly
\* state.resize(sz) for an arbitrary size, between two events.
call_resize(sz) ==
    /\ Running
    /\ event' = Ev("call_resize", OwnWindow, sz, "none", "none")
    /\ Store(resize([Self EXCEPT !.calls = <<>>], sz))
    /\ last_result' = "none"
    /\ frame_size' = NoSize
    /\ UNCHANGED << pc, control_flow, render_pipeline, redraw_requested, output,
                    encoder, render_pass, reported, last_resize, caps >>

NextOps ==
    \/ Next
    \/ \E sz \in WindowSizes : call_resize(sz)

SpecOps == Init /\ [][NextOps]_vars


\* ================================================================ claims
ZeroArea(sz) == sz.width = 0 \/ sz.height = 0

RenderPcs == { "get_current_texture", "create_command_encoder", "begin_render_pass",
               "set_pipeline", "draw", "end_render_pass", "submit", "present" }

\* The calls of a frame cycle: acquisition, recording, submission, presentation.
FrameOps == { "get_current_texture", "begin_render_pass", "set_pipeline", "draw",
              "end_render_pass", "submit", "present" }

IsFrameCall(c) == c.op \in FrameOps

FrameCalls == SelectSeq(calls, IsFrameCall)

\* No command was recorded, submitted or presented while handling `event`.
NothingRendered ==
    /\ ~HasCall(calls, "create_command_encoder")
    /\ ~HasCall(calls, "begin_render_pass")
    /\ ~HasCall(calls, "draw")
    /\ ~HasCall(calls, "submit")
    /\ ~HasCall(calls, "present")

\* The surface holds a configuration of positive area.
SurfaceConfigured == applied.width > 0 /\ applied.height > 0

\* C1: after a positive-area Resized(w,h) of the owned window, every frame
\* that is rendered (on a surface holding a positive-area configuration, as
\* after a 450x400 start) uses a drawable image of the surface configured to
\* (w,h), not of an earlier configuration.
C1_ResizeForwarded ==
    (last_result = "Ok" /\ last_resize # NoSize /\ SurfaceConfigured) =>
        frame_size = last_resize

\* C2: State::resize(w,h) with w>0 and h>0 leaves the Surface Configuration's
\* width and height and the Render Target Size equal to (w,h) and makes
\* exactly one configure call, with that configuration, whatever the
\* configuration was before.
C2_ResizeSetsSize ==
    (event.kind = "call_resize" /\ ~ZeroArea(event.size)) =>
        /\ config.width = event.size.width
        /\ config.height = event.size.height
        /\ size = event.size
        /\ calls = << Call("configure", << event.size.width, event.size.height >>) >>
        /\ applied = config

C2_Witness ==
    /\ event.kind = "call_resize"
    /\ event.size = PhysicalSize(800, 600)
    /\ reported = PhysicalSize(450, 400)
    /\ config.width = 800

\* C3: a resize with w = 0 or h = 0 (the Resized event of the owned window
\* or State::resize itself) leaves the Surface Configuration and the Render
\* Target Size as they were and makes no configure call.
C3_ZeroResizeSkipped ==
    [][ (/\ event'.kind \in {"call_resize", "Resized"}
         /\ event'.window_id = OwnWindow
         /\ ZeroArea(event'.size))
        => (/\ config' = config
            /\ size' = size
            /\ applied' = applied
            /\ ~HasCall(calls', "configure")) ]_vars

C3_Witness ==
    /\ event.kind = "call_resize"
    /\ event.size = PhysicalSize(0, 600)
    /\ config.width = 450
    /\ config.height = 400
    /\ calls = <<>>

\* C4: an acquisition that returns Lost is followed, within the same redraw,
\* by one configure call with the current Render Target Size; nothing is
\* recorded, submitted or presented, the loop keeps running and is ready for
\* the next redraw.
C4_LostReconfigures ==
    last_result = "Lost" =>
        /\ CountCalls(calls, "configure") = 1
        /\ calls[Len(calls)] = Call("configure", << size.width, size.height >>)
        /\ NothingRendered
        /\ Running

\* C5: an acquisition that returns OutOfMemory sets the control flow to Exit
\* within that event, nothing is recorded, submitted or presented, and once
\* the control flow is Exit no acquisition is performed any more.
C5_OutOfMemoryTerminates ==
    /\ [](last_result = "OutOfMemory" =>
            control_flow = "Exit" /\ pc = "dispatch" /\ NothingRendered)
    /\ [][ control_flow = "Exit" =>
            (pc' \notin RenderPcs /\ ~HasCall(calls', "get_current_texture")) ]_vars

C5_Witness ==
    /\ last_result = "OutOfMemory"
    /\ control_flow = "Exit"
    /\ event.kind = "RedrawRequested"

\* C6: a close request for the owned window sets the control flow to Exit in
\* whatever state it arrives; afterwards the Frame Renderer is not entered
\* and the control flow stays Exit.
C6_CloseTerminates ==
    /\ []((event.kind = "CloseRequested" /\ event.window_id = OwnWindow) =>
            control_flow = "Exit" /\ pc \in {"dispatch", "exited"})
    /\ [][ control_flow = "Exit" =>
            (control_flow' = "Exit" /\ pc' \in {"dispatch", "exited"}
             /\ event'.kind # "RedrawRequested") ]_vars

C6_Witness ==
    /\ event.kind = "CloseRequested"
    /\ event.window_id = OwnWindow
    /\ control_flow = "Exit"
    /\ pc = "dispatch"

\* C7: while the most recently reported size of a window (whose surface was
\* configured with positive area) has zero area, a redraw request acquires,
\* records, submits and presents nothing and does not terminate the loop.
C7_ZeroAreaSkipsRender ==
    (event.kind = "RedrawRequested" /\ ZeroArea(reported) /\ SurfaceConfigured) =>
        /\ pc = "dispatch"
        /\ ~HasCall(calls, "get_current_texture")
        /\ NothingRendered
        /\ control_flow # "Exit"

\* C8: every configure call (at startup, from a resize, from Lost recovery)
\* carries a width > 0 and a height > 0.
C8_ConfigurePositive ==
    \A i \in 1..Len(calls) :
        calls[i].op = "configure" => (calls[i].args[1] > 0 /\ calls[i].args[2] > 0)

\* C9: at no point is more than one drawable image held; when the next event
\* is dispatched no image, encoder or render pass is held, and a frame whose
\* acquisition succeeded has submitted its commands and presented its image.
C9_IdleAfterFrame ==
    /\ output <= 1
    /\ pc \in {"dispatch", "exited"} =>
         /\ output = 0
         /\ encoder = "none"
         /\ render_pass = "none"
         /\ last_result = "Ok" =>
              (CountCalls(calls, "submit") = 1 /\ CountCalls(calls, "present") = 1)

C9_Witness ==
    /\ pc = "dispatch"
    /\ last_result = "Ok"
    /\ output = 0
    /\ HasCall(calls, "present")

\* C10: a frame whose acquisition succeeded makes exactly these calls in this
\* order: acquire, begin a render pass clearing to (0.5, 0.4, 0.9, 1.0) with
\* store, set the sole pipeline, draw 3 vertices / 1 instance, end the pass,
\* submit, present.
C10_FrameSequence ==
    (last_result = "Ok" /\ pc = "dispatch") =>
        LET f == FrameCalls IN
        /\ Len(f) = 7
        /\ f[1].op = "get_current_texture"
        /\ f[2] = Call("begin_render_pass", << 5, 4, 9, 10, 1 >>)
        /\ f[3] = Call("set_pipeline", << 1 >>)
        /\ render_pipeline.built = 1
        /\ f[4].op = "draw"
        /\ f[4].args[2] - f[4].args[1] = 3
        /\ f[4].args[4] - f[4].args[3] = 1
        /\ f[5].op = "end_render_pass"
        /\ f[6].op = "submit"
        /\ f[7].op = "present"

C10_Witness ==
    /\ pc = "dispatch"
    /\ last_result = "Ok"
    /\ frame_size = PhysicalSize(450, 400)
    /\ HasCall(calls, "draw")

\* C11: an acquisition that returns Outdated or Timeout skips the frame:
\* nothing is recorded, submitted or presented, no configure call is made,
\* the Surface Configuration and the Render Target Size stay as they were,
\* and the loop keeps running, ready for the next redraw.
C11_OtherErrorsSkipFrame ==
    [][ (pc = "get_current_texture" /\ last_result' \in {"Outdated", "Timeout"})
        => (/\ NothingRendered'
            /\ ~HasCall(calls', "configure")
            /\ config' = config
            /\ size' = size
            /\ applied' = applied
            /\ control_flow' = control_flow
            /\ Running') ]_vars

C11_Witness ==
    /\ last_result = "Timeout"
    /\ pc = "dispatch"
    /\ control_flow = "Poll"
    /\ ~ZeroArea(size)

\* C12: the control flow becomes Exit only while handling a close request or
\* an Escape press for the owned window, or a redraw whose acquisition
\* returned OutOfMemory; the loop stops only once the control flow is Exit.
C12_OnlyThreeExits ==
    [][ /\ (control_flow # "Exit" /\ control_flow' = "Exit") =>
              \/ (event'.kind = "CloseRequested" /\ event'.window_id = OwnWindow)
              \/ (/\ event'.kind = "KeyboardInput" /\ event'.window_id = OwnWindow
                  /\ event'.key = "Escape" /\ event'.state = "Pressed")
              \/ (event'.kind = "RedrawRequested" /\ last_result' = "OutOfMemory")
        /\ (pc # "exited" /\ pc' = "exited") => control_flow = "Exit" ]_vars

C12_Witness ==
    /\ pc = "exited"
    /\ control_flow = "Exit"

\* C13: handling MainEventsCleared makes exactly one request_redraw call and
\* changes nothing else of the program; when the requested redraw is
\* delivered fairly, the notification is followed by an entry into the
\* Frame Renderer unless the loop terminates first.
C13_EventsClearedRequestsRedraw ==
    /\ [][ event'.kind = "MainEventsCleared" =>
             (/\ calls' = << Call("request_redraw", <<>>) >>
              /\ redraw_requested'
              /\ pc' = pc
              /\ control_flow' = control_flow
              /\ size' = size
              /\ config' = config
              /\ applied' = applied
              /\ render_pipeline' = render_pipeline) ]_vars
    /\ (event.kind = "MainEventsCleared") ~>
          (pc = "get_current_texture" \/ control_flow = "Exit")

C13_Witness ==
    /\ event.kind = "MainEventsCleared"
    /\ redraw_requested
    /\ pc = "dispatch"
    /\ control_flow = "Poll"

IsEscapePress(e) ==
    e.kind = "KeyboardInput" /\ e.key = "Escape" /\ e.state = "Pressed"

\* C14: a keyboard event for the owned window sets the control flow to Exit
\* exactly when it is a press of Escape; any other keyboard event leaves the
\* control flow as it was; none changes the Surface Configuration or the
\* Render Target Size.
C14_EscapePressOnly ==
    [][ (event'.kind = "KeyboardInput" /\ event'.window_id = OwnWindow) =>
          (/\ (control_flow' = "Exit") <=> (IsEscapePress(event') \/ control_flow = "Exit")
           /\ ~IsEscapePress(event') => control_flow' = control_flow
           /\ config' = config
           /\ size' = size
           /\ applied' = applied) ]_vars

C14_Witness ==
    /\ event.kind = "KeyboardInput"
    /\ event.window_id = OwnWindow
    /\ event.key = "Escape"
    /\ event.state = "Released"
    /\ control_flow = "Poll"

\* Position of the first call named op among the calls of this event, 0 if none.
FirstCall(op) ==
    IF HasCall(calls, op)
    THEN CHOOSE i \in 1..Len(calls) :
            calls[i].op = op /\ \A j \in 1..(i - 1) : calls[j].op # op
    ELSE 0

\* C15 as claimed: update() is called after the image was acquired and
\* before recording starts, and not at all when the acquisition fails.
C15_UpdateAfterAcquire ==
    /\ HasCall(calls, "update") =>
         /\ HasCall(calls, "get_current_texture")
         /\ FirstCall("get_current_texture") < FirstCall("update")
         /\ last_result = "Ok"
    /\ HasCall(calls, "create_command_encoder") =>
         (HasCall(calls, "update")
            /\ FirstCall("update") < FirstCall("create_command_encoder"))

\* C15 as amended: update() is the first call of every redraw of the owned
\* window and is called once: it precedes the acquisition and the recording,
\* and it has run in a frame whose acquisition fails too.
C15_UpdateBeforeAcquire ==
    (event.kind = "RedrawRequested" /\ event.window_id = OwnWindow) =>
        /\ Len(calls) >= 1
        /\ calls[1] = Call("update", <<>>)
        /\ CountCalls(calls, "update") = 1
        /\ HasCall(calls, "get_current_texture") =>
             FirstCall("update") < FirstCall("get_current_texture")

C15_Witness ==
    /\ event.kind = "RedrawRequested"
    /\ last_result = "Lost"
    /\ HasCall(calls, "update")
    /\ pc = "dispatch"

\* Events the claim C16 calls "other": everything except, for the owned
\* window, a close request, an Escape press, a resize and a redraw request,
\* and except the events-drained notification.
IsOtherEvent(e) ==
    /\ e \in Events
    /\ e.kind # "MainEventsCleared"
    /\ ~(e.window_id = OwnWindow /\ e.kind \in {"CloseRequested", "Resized", "RedrawRequested"})
    /\ ~(e.window_id = OwnWindow /\ IsEscapePress(e))

\* C16: an other event, among them every window event and redraw request
\* for another window, leaves the Surface Configuration, the Render Target
\* Size and the control flow as they were, makes no call at all and does not
\* enter the Frame Renderer.
C16_OtherEventsIgnored ==
    [][ IsOtherEvent(event') =>
          (/\ config' = config
           /\ size' = size
           /\ applied' = applied
           /\ control_flow' = control_flow
           /\ calls' = <<>>
           /\ pc' = "dispatch"
           /\ last_result' = "none") ]_vars

C16_Witness ==
    /\ event.kind = "RedrawRequested"
    /\ event.window_id = "other"
    /\ pc = "dispatch"
    /\ control_flow = "Poll"
    /\ calls = <<>>

\* State::new has returned: the State exists.
Constructed == pc \notin {"start", "aborted"}

\* C17: the configured pixel format is the first sRGB format of the reported
\* list, in the reported order; when the list holds no sRGB format it is the
\* first format of the list.
C17_FormatChoice ==
    Constructed =>
        LET fs == caps.formats IN
        /\ Len(fs) >= 1
        /\ \/ \E i \in 1..Len(fs) :
                /\ is_srgb(fs[i])
                /\ \A j \in 1..(i - 1) : ~is_srgb(fs[j])
                /\ config.format = fs[i]
           \/ /\ \A i \in 1..Len(fs) : ~is_srgb(fs[i])
              /\ config.format = fs[1]

C17_Witness ==
    /\ Constructed
    /\ caps.formats = << "Bgra8Unorm", "Rgba8UnormSrgb" >>
    /\ config.format = "Rgba8UnormSrgb"

\* C18: when surface creation, adapter selection or device creation fails,
\* startup aborts: the surface is not configured, no pipeline is built, the
\* event loop does not start, and nothing happens after the abort.
C18_StartupFailureAborts ==
    [][ /\ pc = "start" =>
            \A sz \in WindowSizes, s_ok \in BOOLEAN, a_ok \in BOOLEAN, d_ok \in BOOLEAN,
               f \in FormatLists, pm \in PresentModeLists, am \in AlphaModeLists :
                (/\ new(sz, s_ok, a_ok, d_ok,
                        [formats |-> f, present_modes |-> pm, alpha_modes |-> am])
                 /\ ~(s_ok /\ a_ok /\ d_ok))
                => (/\ pc' = "aborted"
                    /\ applied' = NoConfig
                    /\ config' = NoConfig
                    /\ render_pipeline' = NoPipeline
                    /\ ~HasCall(calls', "configure")
                    /\ ~HasCall(calls', "create_render_pipeline")
                    /\ event' = NoEvent
                    /\ ~HasCall(calls', IF ~s_ok THEN "request_adapter"
                                        ELSE IF ~a_ok THEN "request_device"
                                        ELSE "get_capabilities"))
        /\ pc # "aborted" ]_vars

C18_Witness ==
    /\ pc = "aborted"
    /\ calls = << Call("create_surface", <<>>), Call("request_adapter", <<>>) >>
    /\ applied = NoConfig
    /\ render_pipeline = NoPipeline

\* C19: the Render Pipeline is built once, after the first configure call,
\* for the configured surface format; afterwards the pipeline and the
\* configuration's pixel format, present mode and alpha mode never change,
\* so the pipeline's target format always equals the surface's format.
C19_PipelineMatchesFormat ==
    /\ [](Constructed =>
            /\ render_pipeline.built = 1
            /\ render_pipeline.format = config.format
            /\ render_pipeline.format = applied.format
            /\ config.present_mode = caps.present_modes[1]
            /\ config.alpha_mode = caps.alpha_modes[1]
            /\ applied.present_mode = config.present_mode
            /\ applied.alpha_mode = config.alpha_mode)
    /\ []((pc = "dispatch" /\ event = NoEvent) =>
            /\ CountCalls(calls, "configure") = 1
            /\ CountCalls(calls, "create_render_pipeline") = 1
            /\ FirstCall("configure") < FirstCall("create_render_pipeline"))
    /\ [][ Constructed =>
            /\ render_pipeline' = render_pipeline
            /\ config'.format = config.format
            /\ config'.present_mode = config.present_mode
            /\ config'.alpha_mode = config.alpha_mode
            /\ ~HasCall(calls', "create_render_pipeline") ]_vars

C19_Witness ==
    /\ last_result = "Lost"
    /\ HasCall(calls, "configure")
    /\ render_pipeline.format = "Rgba8UnormSrgb"
    /\ applied.format = "Rgba8UnormSrgb"

\* C20: between event dispatches the Surface Configuration's width and
\* height equal those of the Render Target Size, and the surface was last
\* configured with exactly that width and height.
C20_ConfigMirrorsSize ==
    Constructed =>
        /\ config.width = size.width
        /\ config.height = size.height
        /\ applied.width = size.width
        /\ applied.height = size.height

C20_Witness ==
    /\ pc = "dispatch"
    /\ last_result = "Lost"
    /\ size = PhysicalSize(800, 600)
    /\ reported = PhysicalSize(450, 400)
    /\ applied.width = 800

====
